---- MODULE Spec2Model ----
(***************************************************************************)
(* Scheduler / mode-dispatch core of the crow-chonky bird controller.      *)
(*                                                                         *)
(*   SpecQueue  the delayed-action queue used by ClockMode                 *)
(*              (schedule_action / check_scheduled_actions / cancel_all)   *)
(*   SpecMgr    ModeManager: construction, load_mode, cycle_mode           *)
(*   SpecRun    BaseMode.run driven by the main program: button polling,   *)
(*              timed condition check and action dispatch, in-loop mode    *)
(*              cycling on a long press                                    *)
(*   SpecClock  ClockMode.run: chime scheduling, cleanup on a mode switch  *)
(*   SpecChime  Amplifier clip selection for a target caw count            *)
(*   SpecRandom BaseMode.run of a RandomMode instance                      *)
(*   SpecLoad   load_mode under failing LEDs and a failing constructor     *)
(*   SpecHour   ClockMode hour setting by short presses                    *)
(*   SpecReentry the delayed-action queue with callbacks that schedule     *)
(*   SpecEnd    BaseMode.run leaving its loop: break, interrupt, error     *)
(*   SpecFinish ClockMode.run left to iterate until every chime finished   *)
(*   SpecButton Button.update polled with an arbitrary pin signal          *)
(*                                                                         *)
(* Time is time.monotonic() abstracted to whole units (seconds in SpecRun, *)
(* scheduler ticks in SpecQueue, 1/20 s in the clock specifications).      *)
(***************************************************************************)
EXTENDS Integers, Sequences, FiniteSets, TLC

\* ---------------------------------------------------------------- bounds
MaxActions == 3        \* actions scheduled in one behaviour of SpecQueue
MaxDelay == 2          \* largest delay passed to schedule_action
MaxModes == 3          \* longest available_modes list
MaxLoads == 5          \* mode instances created in one behaviour
MaxRunTime == 62       \* last clock value of SpecRun
MaxStep == 2           \* longest time between two loop iterations
MaxCycles == 2         \* long presses handled in one behaviour of SpecRun

VARIABLES
    now,                    \* time.monotonic()
    \* delayed-action queue
    scheduled_actions,      \* pending actions: set of [id, target_time, fails]
    next_action_id,         \* id handed out by the next schedule_action
    executed,               \* per action id: callback invocations and failures
    last_drain,             \* the latest check_scheduled_actions: [at, due, ran]
    cancelled,              \* actions removed by cancel_all: [id, target_time]
    \* ModeManager
    available_modes,        \* ModeManager.available_modes
    current_mode_name,      \* ModeManager.current_mode_name
    current_mode_instance,  \* ModeManager.current_mode_instance: [id, cls]
    next_instance,          \* identity of the next mode object constructed
    cleaned_up,             \* ids of the instances whose cleanup() was called
    last_load,              \* the latest load_mode call: [requested, result]
    cycle_origin,           \* current_mode_name when the cycle count started
    cycle_count,            \* consecutive cycle_mode calls since then
    \* BaseMode.run
    run_pc,                 \* "idle" | "loop" | "ended" | "raised"
    run_inst,               \* the instance whose run() is executing: [id, cls]
    last_action_time,       \* run_inst.last_action_time
    last_tick,              \* the latest loop iteration
    last_check,             \* the latest check_conditions_and_act
    \* ClockMode and the hardware it drives
    current_hour,           \* ClockMode.current_hour
    last_chime_time,        \* ClockMode.last_chime_time
    chime_in_progress,      \* ClockMode.chime_in_progress
    hw,                     \* crow.leds / crow.servo / crow.amplifier: [leds, servo, audio, volume]
    presses,                \* short presses handled by ClockMode.on_button_press
    last_cleanup,           \* the latest BaseMode.cleanup: [by, at, hw, pending]
    press_budget,           \* short presses the behaviour may contain
    clock_end,              \* last clock value of the behaviour
    clock_chime_interval,   \* ClockMode.chime_interval, in clock units
    chime_log,              \* the latest chime: [path, at, play_failed, skipped]
    \* Amplifier clip selection
    sound_files,            \* Amplifier.sound_files restricted to the files that exist
    fallback_behavior,      \* Amplifier.fallback_behavior
    target_caws,            \* argument of _find_optimal_file_combination
    selected_files,         \* its result: [done, files]
    \* RandomMode
    configured_variance,    \* config random.interval_variance, percent: [present, value]
    interval_variance,      \* RandomMode.interval_variance, percent
    last_interval,          \* RandomMode.last_interval: [sampled, value]
    \* Button callbacks and the environment of load_mode
    button,                 \* crow.button: [on_press, on_long_press]
    last_load_env,          \* the latest load_mode: what failed, the state before it
    btn,                    \* the fields of crow.button that Button.update reads and writes
    btn_log,                \* the pin readings and callbacks of Button.update so far
    run_end,                \* how run left its loop: [reason, cleanups]
    init_time               \* time.monotonic() when run called init

queue_vars == <<scheduled_actions, next_action_id, executed, last_drain, cancelled>>
mgr_vars == <<available_modes, current_mode_name, current_mode_instance,
              next_instance, cleaned_up, last_load, cycle_origin, cycle_count>>
run_vars == <<run_pc, run_inst, last_action_time, last_tick, last_check>>
clock_vars == <<current_hour, last_chime_time, chime_in_progress, hw, presses,
                last_cleanup, press_budget, clock_end, clock_chime_interval,
                chime_log>>
btn_vars == <<btn, btn_log>>
aux_rest == <<sound_files, fallback_behavior, target_caws, selected_files,
              configured_variance, interval_variance, last_interval,
              button, last_load_env, btn_vars>>
aux_vars == <<aux_rest, run_end, init_time>>
vars == <<now, queue_vars, mgr_vars, run_vars, clock_vars, aux_vars>>

Min(a, b) == IF a <= b THEN a ELSE b
Max(a, b) == IF a >= b THEN a ELSE b

Range(s) == {s[i] : i \in 1..Len(s)}

\* =================================================== delayed-action queue
\* The queue itself (BaseMode.schedule_action, check_scheduled_actions and
\* the cancellation) is called by ClockMode but is not part of the source
\* tree; it is modelled from section 4.1 of the specification.

NoDrain == [at |-> -1, due |-> {}, ran |-> <<>>]

InitQueue ==
    /\ scheduled_actions = {}
    /\ next_action_id = 1
    /\ executed = [id \in 1..MaxActions |-> [count |-> 0, failures |-> 0]]
    /\ last_drain = NoDrain
    /\ cancelled = {}

\* schedule(delay, callback, label) -> action_id
schedule_action(queue, id, t, delay, fails) ==
    queue \cup {[id |-> id, target_time |-> t + delay, fails |-> fails]}

DueActions(queue, t) == {a \in queue : a.target_time <= t}

IsAscending(s) ==
    \A i, j \in 1..Len(s) : i < j => s[i].target_time <= s[j].target_time

Orderings(S) ==
    {s \in [1..Cardinality(S) -> S] : \A i, j \in 1..Cardinality(S) : i # j => s[i] # s[j]}

InsertionOrders(due) ==
    {s \in Orderings(due) : \A i, j \in 1..Len(s) : i < j => s[i].id < s[j].id}

\* drain_due executes the due actions in ascending target_time order; the
\* order of two actions with the same target_time is not specified.
DrainOrders(due) == {s \in Orderings(due) : IsAscending(s)}

UpToFirstFailure(order) ==
    IF \E i \in 1..Len(order) : order[i].fails
    THEN SubSeq(order, 1, CHOOSE i \in 1..Len(order) :
                             /\ order[i].fails
                             /\ \A j \in 1..(i - 1) : ~order[j].fails)
    ELSE order

\* The callbacks drain_due invokes: a failing callback is logged and the
\* remaining due actions still execute.
RunDue(order) == order

KeepFailed(queue, due) == queue \ {a \in due : ~a.fails}

\* Every due action is removed, whether or not its callback failed.
AfterDrain(queue, due) == queue \ due

KeepDue(queue, t) == {a \in queue : a.target_time <= t}

\* cancel_all leaves nothing pending.
AfterCancel(queue, t) == {}

ScheduleAction(delay, fails) ==
    /\ next_action_id <= MaxActions
    /\ scheduled_actions' =
           schedule_action(scheduled_actions, next_action_id, now, delay, fails)
    /\ next_action_id' = next_action_id + 1
    /\ UNCHANGED <<now, executed, last_drain, cancelled, mgr_vars, run_vars, clock_vars, aux_vars>>

check_scheduled_actions ==
    LET due == DueActions(scheduled_actions, now) IN
    /\ \E order \in DrainOrders(due) :
           /\ executed' = [id \in 1..MaxActions |->
                  LET runs == {i \in 1..Len(RunDue(order)) : RunDue(order)[i].id = id} IN
                  [count |-> executed[id].count + Cardinality(runs),
                   failures |-> executed[id].failures +
                                Cardinality({i \in runs : RunDue(order)[i].fails})]]
           /\ last_drain' = [at |-> now, due |-> due, ran |-> RunDue(order)]
    /\ scheduled_actions' = AfterDrain(scheduled_actions, due)
    /\ UNCHANGED <<now, next_action_id, cancelled, mgr_vars, run_vars, clock_vars, aux_vars>>

cancel_all ==
    /\ scheduled_actions # {}
    /\ cancelled' = cancelled \cup
           {[id |-> a.id, target_time |-> a.target_time] : a \in scheduled_actions}
    /\ scheduled_actions' = AfterCancel(scheduled_actions, now)
    /\ UNCHANGED <<now, next_action_id, executed, last_drain, mgr_vars, run_vars, clock_vars, aux_vars>>

\* The clock of SpecQueue runs one unit past the longest delay.
MaxQueueTime == MaxDelay + 1

Elapse(d) ==
    /\ now + d <= MaxQueueTime
    /\ now' = now + d
    /\ UNCHANGED <<queue_vars, mgr_vars, run_vars, clock_vars, aux_vars>>

\* ------------------------------------------- re-entrant scheduling
\* A callback may itself call schedule(delay, ...): `spawn` is the delay it
\* passes (NoSpawn: it schedules nothing), `parent` the action whose callback
\* scheduled this one (0: scheduled by the mode).
NoSpawn == -1
MaxSpawnDelay == 1        \* largest delay a callback passes to schedule

Spawners(S) == {a \in S : a.spawn # NoSpawn}

\* The position of a spawning action among the spawning actions of a drain.
SpawnRank(order, i) == Cardinality({j \in 1..i : order[j].spawn # NoSpawn})

\* The actions scheduled by the callbacks of one drain at time t, ids taken
\* in execution order.
Spawned(order, first_id, t) ==
    {[id |-> first_id + SpawnRank(order, i) - 1, target_time |-> t + order[i].spawn,
      fails |-> FALSE, spawn |-> NoSpawn, parent |-> order[i].id] :
        i \in {k \in 1..Len(order) : order[k].spawn # NoSpawn}}

DropDueSpawned(queue, due, spawned, t) ==
    {a \in (queue \cup spawned) : a.target_time > t}

\* drain_due iterates over a snapshot: the actions due at its start are
\* removed, the actions their callbacks scheduled stay pending.
AfterReentrantDrain(queue, due, spawned, t) == (queue \ due) \cup spawned

ScheduleReentrant(delay, fails, spawn) ==
    /\ next_action_id + Cardinality(Spawners(scheduled_actions))
           + (IF spawn # NoSpawn THEN 1 ELSE 0) <= MaxActions
    /\ scheduled_actions' = scheduled_actions \cup
           {[id |-> next_action_id, target_time |-> now + delay, fails |-> fails,
             spawn |-> spawn, parent |-> 0]}
    /\ next_action_id' = next_action_id + 1
    /\ UNCHANGED <<now, executed, last_drain, cancelled, mgr_vars, run_vars, clock_vars, aux_vars>>

drain_due ==
    LET due == DueActions(scheduled_actions, now) IN
    /\ \E order \in DrainOrders(due) :
           LET spawned == Spawned(order, next_action_id, now) IN
           /\ executed' = [id \in 1..MaxActions |->
                  LET runs == {i \in 1..Len(order) : order[i].id = id} IN
                  [count |-> executed[id].count + Cardinality(runs),
                   failures |-> executed[id].failures +
                                Cardinality({i \in runs : order[i].fails})]]
           /\ last_drain' = [at |-> now, due |-> due, ran |-> order]
           /\ scheduled_actions' = AfterReentrantDrain(scheduled_actions, due, spawned, now)
           /\ next_action_id' = next_action_id + Cardinality(spawned)
    /\ UNCHANGED <<now, cancelled, mgr_vars, run_vars, clock_vars, aux_vars>>

\* ============================================================ ModeManager
NoInstance == [id |-> 0, cls |-> "None"]

\* Mode names a configuration may list or a caller may request.
ModeNames == {"default", "clock", "battery_monitor", "ghost"}

\* `import modes.<name>_mode`: the BaseMode-derived class the module holds,
\* "NoClass" when it holds none, "ImportError" when the import fails.
\* modes/clock_mode.py and modes/random_mode.py are such modules.
SuffixedImport(name) ==
    CASE name = "clock" -> "ClockMode"
      [] name = "random" -> "RandomMode"
      [] OTHER -> "ImportError"

\* `import modes.<name>`: clock.py, default.py and battery_monitor.py are
\* function-based modules without a BaseMode-derived class.
PlainImport(name) ==
    IF name \in {"clock", "default", "battery_monitor"} THEN "NoClass" ELSE "ImportError"

Made(cls) == [raised |-> FALSE, cls |-> cls]
Raised == [raised |-> TRUE, cls |-> "None"]

\* ModeManager._create_mode_instance: the class of the object returned, or
\* the exception leaving the method.
create_mode_instance(mode_name) ==
    IF mode_name = "default" THEN Made("BaseMode")
    ELSE CASE SuffixedImport(mode_name) = "ImportError" ->
                \* except ImportError: retry without the _mode suffix
                ( CASE PlainImport(mode_name) = "ImportError" -> Made("BaseMode")
                    \* raised inside the except ImportError handler: only the
                    \* inner `except ImportError` guards it, so it propagates
                    [] PlainImport(mode_name) = "NoClass" -> Raised
                    [] OTHER -> Made(PlainImport(mode_name)) )
           \* raised in the try body, caught by `except Exception`:
           \* mode_name is not "default", a BaseMode is returned
           [] SuffixedImport(mode_name) = "NoClass" -> Made("BaseMode")
           [] OTHER -> Made(SuffixedImport(mode_name))

IndexOf(seq, x) == CHOOSE i \in 1..Len(seq) : seq[i] = x /\ \A j \in 1..(i - 1) : seq[j] # x

\* The name load_mode records when it falls back after an exception.
FallbackName(mode_name) == "default"

\* ModeManager.load_mode as a function of the manager state: the state after
\* the call and whether the call returned True ("ok") or raised.
\* leds_ok: whether crow.leds.flash_eyes works.
load_mode(cur, next_id, mode_name, leds_ok) ==
    LET made == create_mode_instance(mode_name)
        fallback == [instance |-> [id |-> next_id, cls |-> "BaseMode"],
                     name |-> FallbackName(mode_name), result |-> "ok"]
    IN  IF made.raised
        THEN IF mode_name # "default"
             THEN fallback
             ELSE [instance |-> cur.instance, name |-> cur.name, result |-> "raised"]
        ELSE IF leds_ok
             THEN [instance |-> [id |-> next_id, cls |-> made.cls],
                   name |-> mode_name, result |-> "ok"]
             \* flash_eyes(times=mode_position) and flash_eyes(times=1) both raise
             ELSE IF mode_name # "default"
                  THEN fallback
                  ELSE [instance |-> [id |-> next_id, cls |-> made.cls],
                        name |-> mode_name, result |-> "raised"]

\* cycle_mode: the list position the next mode is counted from (0-based
\* current_index + 1); index() finds the first occurrence, ValueError -> 0.
CurrentIndex(modes, name) == IF name \in Range(modes) THEN IndexOf(modes, name) ELSE 1

NextModeNoWrap(modes, name) == modes[Min(CurrentIndex(modes, name) + 1, Len(modes))]

NextMode(modes, name) == modes[(CurrentIndex(modes, name) % Len(modes)) + 1]

Configs == UNION {[1..n -> ModeNames] : n \in 1..MaxModes}

\* Outcomes of crow.leds.flash_eyes the behaviours range over (TRUE: it
\* works). load_mode covers a raising flash_eyes; the behaviours checked
\* here are those of working LEDs.
LedsInputs == {TRUE}

\* ModeManager.__init__: config "mode" validated against available_modes
\* (replaced by the first entry when absent or not listed), then load_mode.
ConstructManager(modes, mode, leds_ok) ==
    LET first == IF mode \in Range(modes) THEN mode ELSE modes[1]
        res == load_mode([instance |-> NoInstance, name |-> first], 1, first, leds_ok)
    IN  /\ res.result = "ok"
        /\ available_modes = modes
        /\ current_mode_name = res.name
        /\ current_mode_instance = res.instance
        /\ next_instance = 2
        /\ cleaned_up = {}
        /\ last_load = [requested |-> first, result |-> res.result]
        /\ cycle_origin = res.name
        /\ cycle_count = 0

InitMgr ==
    \E modes \in Configs, mode \in ModeNames, leds_ok \in LedsInputs :
        ConstructManager(modes, mode, leds_ok)

\* The manager part of a load_mode(mode_name) call.
DoLoad(mode_name, leds_ok) ==
    LET res == load_mode([instance |-> current_mode_instance, name |-> current_mode_name],
                         next_instance, mode_name, leds_ok)
    IN  /\ cleaned_up' = IF current_mode_instance = NoInstance THEN cleaned_up
                         ELSE cleaned_up \cup {current_mode_instance.id}
        /\ current_mode_instance' = res.instance
        /\ current_mode_name' = res.name
        /\ next_instance' = next_instance + 1
        /\ last_load' = [requested |-> mode_name, result |-> res.result]
        /\ UNCHANGED available_modes

LoadMode(mode_name, leds_ok) ==
    /\ next_instance <= MaxLoads
    /\ DoLoad(mode_name, leds_ok)
    /\ cycle_origin' = current_mode_name'
    /\ cycle_count' = 0
    /\ UNCHANGED <<now, queue_vars, run_vars, clock_vars, aux_vars>>

CycleMode(leds_ok) ==
    /\ next_instance <= MaxLoads
    /\ DoLoad(NextMode(available_modes, current_mode_name), leds_ok)
    /\ cycle_count' = cycle_count + 1
    /\ UNCHANGED <<cycle_origin, now, queue_vars, run_vars, clock_vars, aux_vars>>


\* =============================================== conditions and dispatch
interval_minutes == 1        \* config "interval_minutes" of the 60 s scenario
voltage_critical == 30       \* Battery.voltage_critical, in tenths of a volt
light_threshold == 1000      \* config sensors.light_threshold

\* BaseMode.init: action_interval = interval_minutes * 60
action_interval == interval_minutes * 60

NoBattery == [enabled |-> FALSE, voltage |-> 0]
BatteryInputs ==
    {NoBattery} \cup {[enabled |-> TRUE, voltage |-> v] :
                         v \in {voltage_critical - 1, voltage_critical}}
LightInputs == {light_threshold, light_threshold + 1}

is_critical_battery(battery) == battery.voltage < voltage_critical
over_minimum(reading) == reading > light_threshold

Conditions(sufficient) ==
    [light_sufficient |-> sufficient,
     condition |-> IF sufficient THEN "light_sufficient" ELSE "too_dark"]

check_conditions_LightFirst(battery, reading) ==
    IF ~over_minimum(reading) THEN Conditions(FALSE)
    ELSE IF battery.enabled /\ is_critical_battery(battery)
         THEN [light_sufficient |-> FALSE, condition |-> "critical_battery"]
         ELSE Conditions(TRUE)

\* CrowBird.check_conditions -> (light_sufficient, condition)
check_conditions(battery, reading) ==
    IF battery.enabled /\ is_critical_battery(battery)
    THEN [light_sufficient |-> FALSE, condition |-> "critical_battery"]
    ELSE Conditions(over_minimum(reading))

\* BaseMode.check_conditions_and_act: the hooks it invokes, in order.
check_conditions_and_act(battery, reading) ==
    LET c == check_conditions(battery, reading) IN
    IF c.condition = "critical_battery" THEN <<"perform_battery_warning">>
    ELSE IF c.light_sufficient THEN <<"perform_action">>
    ELSE <<"perform_night_action">>

\* perform_action calls amplifier.play_wav() with no file name; with no .wav
\* file in the audio directory random_wav() returns None and
\* filename.startswith raises outside play_wav's try block.
HookRaises(hooks, wavs) == "perform_action" \in Range(hooks) /\ ~wavs

\* BaseMode.perform_action: the calls it makes before it returns, in order
\* (fade_in and play_wav block until done), and the actions it schedules.
perform_action_calls ==
    <<"leds.fade_in", "servo.to_top", "amplifier.play_wav", "time.sleep",
      "servo.to_bottom", "amplifier.play_wav", "time.sleep",
      "servo.to_midpoint", "leds.fade_out">>
perform_action_scheduled == {}


\* ============================================================== RandomMode
\* interval_variance is kept in percent: 25 is the source's 0.25.
default_variance == 25

NoVariance == [set |-> FALSE, value |-> 0]
\* RandomMode.__init__: interval_variance = 0.25, last_interval = None
NotInitialised == [init |-> FALSE, value |-> default_variance]
NoInterval == [sampled |-> FALSE, value |-> 0]

\* The values config "random.interval_variance" takes: absent, below 0, the
\* two ends of the range, inside it, above 1.
VarianceInputs ==
    {NoVariance} \cup {[set |-> TRUE, value |-> v] : v \in {-1, 0, 50, 100, 101}}

InitRandom ==
    /\ configured_variance = NoVariance
    /\ interval_variance = NotInitialised
    /\ last_interval = NoInterval

\* get_config_value(config, "random.interval_variance", 0.25)
get_config_value(cfg) == IF cfg.set THEN cfg.value ELSE default_variance

KeepConfigured(v) == v

\* if not (0 <= self.interval_variance <= 1): self.interval_variance = 0.25
validate_variance(v) == IF ~(0 <= v /\ v <= 100) THEN default_variance ELSE v

\* RandomMode.mode_init
mode_init(cfg) == [init |-> TRUE, value |-> validate_variance(get_config_value(cfg))]

\* RandomMode.get_next_interval: the values random.uniform(min_interval,
\* max_interval) may return, in whole seconds.
get_next_interval(base, variance) ==
    ((base * (100 - variance)) \div 100) .. ((base * (100 + variance)) \div 100)

\* The callers of get_next_interval: BaseMode.run compares the elapsed time
\* with self.action_interval and no method calls get_next_interval.
get_next_interval_callers == {}

\* ================================================================== button
\* main(): crow.button.set_callbacks(on_press=on_short_press,
\* on_long_press=on_long_press), both closures over the mode manager.
GlobalShortPress == [owner |-> "main.on_short_press", inst |-> 0]
GlobalLongPress == [owner |-> "main.on_long_press", inst |-> 0]

\* Button.__init__ at time t with the pin reading `pressed`.
NewButton(t, pressed) ==
    [last_state |-> pressed, last_change_time |-> t, press_start_time |-> 0,
     last_press_time |-> 0, press_count |-> 0, long_press_triggered |-> FALSE]

\* No update yet. pin is the latest raw reading, edges the changes of the
\* reading so far, hold_longs the long-press callbacks fired during the
\* latest continuous hold, hold_counted whether the release of that hold was
\* counted as a press, fired the callbacks of the latest update, pending the
\* press_count the latest _process_pending_presses found.
NoPresses(pressed) ==
    [pin |-> pressed, edges |-> 0, hold_longs |-> 0, hold_counted |-> FALSE,
     fired |-> {}, pending |-> 0]

InitButton ==
    /\ button = [on_press |-> GlobalShortPress, on_long_press |-> GlobalLongPress]
    /\ btn = NewButton(now, FALSE)
    /\ btn_log = NoPresses(FALSE)

ModeShortPress(inst) == [owner |-> "mode.on_short_press", inst |-> inst.id]

setup_button_handling_Both(b, inst) ==
    [on_press |-> ModeShortPress(inst), on_long_press |-> ModeShortPress(inst)]

\* BaseMode.setup_button_handling: crow.button.on_press = on_short_press
setup_button_handling(b, inst) == [b EXCEPT !.on_press = ModeShortPress(inst)]

\* Button.update dispatching a long press: on_long_press() is the global
\* handler, which calls mode_manager.cycle_mode().
LongPressCycles(b, event) == event = "long" /\ b.on_long_press = GlobalLongPress

\* ------------------------------------------------------------ Button.update
\* Time in units of 50 ms; main.py constructs the button with debounce_ms 50,
\* long_press_ms 1500, double_press_window_ms 500.
debounce_time == 1
long_press_time == 30
double_press_window == 10

\* Button._on_button_pressed
on_button_pressed(b, current_time) ==
    [b EXCEPT !.press_start_time = current_time, !.long_press_triggered = FALSE]

\* Button._on_button_released counts the press.
CountsPress(b, current_time) ==
    ~b.long_press_triggered /\ current_time - b.press_start_time > debounce_time

\* Button._on_button_released
on_button_released(b, current_time) ==
    IF CountsPress(b, current_time)
    THEN [b EXCEPT !.press_count = @ + 1, !.last_press_time = current_time]
    ELSE b

\* Button._trigger_long_press
trigger_long_press(b) == [b EXCEPT !.long_press_triggered = TRUE]

\* Button._process_pending_presses: the callback it invokes.
PendingCallback(b) == IF b.press_count = 1 THEN "on_press" ELSE "on_double_press"

process_pending_presses(b) == [b EXCEPT !.press_count = 0]

\* Button.update at current_time with the raw pin reading current_state:
\* the new fields and what the call did.
button_update(b, current_time, current_state) ==
    LET changed == /\ current_state # b.last_state
                   /\ current_time - b.last_change_time > debounce_time
        b0 == IF changed
              THEN [b EXCEPT !.last_change_time = current_time,
                             !.last_state = current_state]
              ELSE b
        b1 == IF changed
              THEN IF current_state THEN on_button_pressed(b0, current_time)
                   ELSE on_button_released(b0, current_time)
              ELSE b0
        long == /\ current_state
                /\ ~b1.long_press_triggered
                /\ current_time - b1.press_start_time > long_press_time
        b2 == IF long THEN trigger_long_press(b1) ELSE b1
        timeout == /\ b2.press_count > 0
                   /\ current_time - b2.last_press_time > double_press_window
        b3 == IF timeout THEN process_pending_presses(b2) ELSE b2
    IN  [b |-> b3,
         counted |-> changed /\ ~current_state /\ CountsPress(b0, current_time),
         fired |-> (IF long THEN {"on_long_press"} ELSE {})
                   \cup (IF timeout THEN {PendingCallback(b2)} ELSE {}),
         pending |-> IF timeout THEN b2.press_count ELSE 0]

PollStep == 1                \* time between two calls of Button.update
MaxEdges == 4                \* changes of the pin reading in one behaviour
\* long enough for a hold that outlasts long_press_time
ButtonWindow == long_press_time + 4 * PollStep

\* One call of crow.button.update() in a run loop, PollStep after the
\* previous one, the pin reading `pin`.
ButtonUpdate(pin) ==
    LET current_time == now + PollStep
        r == button_update(btn, current_time, pin)
        starts == pin /\ ~btn_log.pin
        longs == IF "on_long_press" \in r.fired THEN 1 ELSE 0
    IN
    /\ current_time <= clock_end
    /\ pin # btn_log.pin => btn_log.edges < MaxEdges
    /\ now' = current_time
    /\ btn' = r.b
    /\ btn_log' = [pin |-> pin,
                   edges |-> IF pin # btn_log.pin THEN btn_log.edges + 1 ELSE btn_log.edges,
                   hold_longs |-> IF starts THEN longs ELSE btn_log.hold_longs + longs,
                   hold_counted |-> IF starts THEN FALSE
                                    ELSE btn_log.hold_counted \/ r.counted,
                   fired |-> r.fired,
                   pending |-> r.pending]
    /\ UNCHANGED <<queue_vars, mgr_vars, run_vars, clock_vars,
                   sound_files, fallback_behavior, target_caws, selected_files,
                   configured_variance, interval_variance, last_interval,
                   button, last_load_env, run_end, init_time>>

\* ============================================================ BaseMode.run
NoTick == [at |-> -1, by |-> 0, was_current |-> TRUE, event |-> "none",
           timed |-> 0, raised |-> FALSE, prev_action_time |-> 0,
           update |-> "none"]

NoEnd == [reason |-> "none", cleanups |-> 0]

\* The `finally` block of run: cleanup is called once, however the loop
\* was left.
finally_cleanups(reason) == 1

\* run leaving its loop: break, KeyboardInterrupt or another exception.
EndRun(end, reason) == [reason |-> reason, cleanups |-> end.cleanups + finally_cleanups(reason)]

\* load_mode calling cleanup on the instance whose run loop is executing.
CleanedByLoad(end, cycles, outgoing, running) ==
    IF cycles /\ outgoing = running
    THEN [end EXCEPT !.cleanups = end.cleanups + 1] ELSE end
NoCheck == [by |-> 0, trigger |-> "none", battery |-> NoBattery,
            reading |-> light_threshold, hooks |-> <<>>]

Check(by, trigger, battery, reading) ==
    [by |-> by, trigger |-> trigger, battery |-> battery, reading |-> reading,
     hooks |-> check_conditions_and_act(battery, reading)]

InitIdle ==
    /\ run_pc = "idle"
    /\ run_inst = NoInstance
    /\ last_action_time = 0
    /\ last_tick = NoTick
    /\ last_check = NoCheck
    /\ run_end = NoEnd
    /\ init_time = 0

\* Classes that inherit BaseMode.run (ClockMode overrides it).
RunsBaseLoop(inst) == inst.cls \in {"BaseMode", "RandomMode"}

\* main(): mode_manager.run_current_mode() -> BaseMode.run up to the loop:
\* init() (timestamps reset, short-press callback installed), the start-up
\* check_conditions_and_act (outside the try block) and
\* last_action_time = time.monotonic().
RunCurrentMode(battery, reading, wavs) ==
    LET chk == Check(current_mode_instance.id, "startup", battery, reading) IN
    /\ run_pc = "idle"
    /\ RunsBaseLoop(current_mode_instance)
    /\ run_inst' = current_mode_instance
    /\ last_check' = chk
    /\ IF HookRaises(chk.hooks, wavs)
       THEN run_pc' = "raised" /\ last_action_time' = 0
       ELSE run_pc' = "loop" /\ last_action_time' = now
    /\ button' = setup_button_handling(button, current_mode_instance)
    /\ interval_variance' = IF current_mode_instance.cls = "RandomMode"
                            THEN mode_init(configured_variance)
                            ELSE interval_variance
    /\ UNCHANGED <<now, last_tick, queue_vars, mgr_vars, clock_vars,
                   sound_files, fallback_behavior, target_caws, selected_files,
                   configured_variance, last_interval, last_load_env, btn_vars,
                   run_end>>
    /\ init_time' = now

ButtonEvents == {"none", "short", "long"}

\* One iteration of the `while True` loop of BaseMode.run, dt after the
\* previous one: button.update() (short press -> on_button_press, long press
\* -> the global cycle_mode), the timed check, mode_update, bookkeeping.
TickBody(dt, event, battery, reading, wavs, leds_ok, update) ==
    LET current_time == now + dt
        due == current_time - last_action_time >= action_interval
        timed == Check(run_inst.id, "timed", battery, reading)
        fatal == due /\ HookRaises(timed.hooks, wavs)
        \* mode_update() returned False: break
        stop == ~fatal /\ update = "stop"
        \* mode_update() raised: flash_eyes(times=5), time.sleep(1)
        pause == IF ~fatal /\ update = "raises" THEN 1 ELSE 0
        res == load_mode([instance |-> current_mode_instance, name |-> current_mode_name],
                         next_instance, NextMode(available_modes, current_mode_name),
                         leds_ok)
        cleaned == IF LongPressCycles(button, event)
                   THEN cleaned_up \cup {current_mode_instance.id} ELSE cleaned_up
    IN
    /\ now' = current_time + pause
    \* button.update()
    /\ IF LongPressCycles(button, event)
       THEN /\ current_mode_instance' = res.instance
            /\ current_mode_name' = res.name
            /\ next_instance' = next_instance + 1
            /\ last_load' = [requested |-> NextMode(available_modes, current_mode_name),
                             result |-> res.result]
            /\ cycle_count' = cycle_count + 1
       ELSE UNCHANGED <<current_mode_instance, current_mode_name, next_instance,
                        last_load, cycle_count>>
    \* timed action; an exception leaves the loop: flash, finally cleanup()
    /\ last_action_time' = IF due /\ ~fatal THEN current_time ELSE last_action_time
    /\ run_pc' = IF fatal \/ stop THEN "ended" ELSE "loop"
    /\ cleaned_up' = IF fatal \/ stop THEN cleaned \cup {run_inst.id} ELSE cleaned
    /\ run_end' = LET end == CleanedByLoad(run_end, LongPressCycles(button, event),
                                           current_mode_instance, run_inst)
                  IN  IF fatal THEN EndRun(end, "fatal")
                      ELSE IF stop THEN EndRun(end, "stop")
                      ELSE end
    /\ last_check' = IF due THEN timed
                     ELSE IF event = "short"
                          THEN Check(run_inst.id, "button", battery, reading)
                          ELSE last_check
    /\ last_tick' = [at |-> current_time, by |-> run_inst.id,
                     was_current |-> run_inst = current_mode_instance,
                     event |-> event, timed |-> IF due THEN 1 ELSE 0,
                     raised |-> fatal, prev_action_time |-> last_action_time,
                     update |-> IF fatal THEN "none" ELSE update]
    /\ UNCHANGED <<run_inst, available_modes, cycle_origin, queue_vars, clock_vars, aux_rest, init_time>>

\* The sensors, the audio directory and the LEDs are inputs of the iteration
\* only where it reads them: the sensors when a check runs, the audio
\* directory when the timed check may play, the LEDs when a mode is loaded.
TickWith(dt, event, update) ==
    LET due == now + dt - last_action_time >= action_interval
        checks == due \/ event = "short"
    IN
    /\ run_pc = "loop"
    /\ now + dt + (IF update = "raises" THEN 1 ELSE 0) <= MaxRunTime
    /\ event = "long" => cycle_count < MaxCycles
    /\ \E battery \in IF checks THEN BatteryInputs ELSE {NoBattery},
          reading \in IF checks THEN LightInputs ELSE {light_threshold},
          wavs \in IF due THEN BOOLEAN ELSE {TRUE},
          leds_ok \in IF event = "long" THEN LedsInputs ELSE {TRUE} :
           TickBody(dt, event, battery, reading, wavs, leds_ok, update)

\* An iteration whose mode_update returns True or None (BaseMode.mode_update).
Tick(dt, event) == TickWith(dt, event, "continue")

\* The outcomes of an overridden mode_update hook that end or disturb the
\* iteration: it returns False, it raises.
UpdateOutcomes == {"stop", "raises"}

\* KeyboardInterrupt in the loop of BaseMode.run: the finally block calls
\* cleanup.
RunInterrupt ==
    /\ run_pc = "loop"
    /\ RunsBaseLoop(run_inst)
    /\ run_pc' = "ended"
    /\ cleaned_up' = cleaned_up \cup {run_inst.id}
    /\ run_end' = EndRun(run_end, "interrupt")
    /\ UNCHANGED <<now, queue_vars, available_modes, current_mode_name,
                   current_mode_instance, next_instance, last_load, cycle_origin,
                   cycle_count, run_inst, last_action_time, last_tick, last_check,
                   clock_vars, aux_rest, init_time>>

\* ============================================================== ClockMode
UnitsPerSecond == 20         \* clock resolution of SpecClock: 0.05 s
audio_volume == 60           \* config audio.volume, percent
chime_volume == 70           \* config clock.chime_volume, percent

\* mode_init: chime_interval = 30 s with config "debug"
chime_interval == 30 * UnitsPerSecond
flash_period == UnitsPerSecond \div 2              \* i * 0.5
flash_on_time == UnitsPerSecond \div 4             \* + 0.25
chime_spacing == (4 * UnitsPerSecond) \div 5       \* chime_spacing_seconds, 0.8
chime_delay == UnitsPerSecond \div 5               \* 0.2
quiet_delay == UnitsPerSecond \div 10              \* 0.1

\* The hardware as CrowBird.setup_components leaves it.
RestHw == [leds |-> "off", servo |-> "mid", audio |-> "stopped", volume |-> audio_volume]

NoCleanup == [by |-> 0, at |-> -1, hw |-> RestHw, pending |-> {}]

\* No chime yet. path is the branch perform_hourly_chime took when it last
\* set chime_in_progress, play_failed whether the playback callback of that
\* chime raised, skipped whether perform_hourly_chime was called again while
\* that chime was in progress.
NoChime == [path |-> "none", at |-> -1, play_failed |-> FALSE, skipped |-> FALSE]

InitClockWith(budget, window, interval) ==
    /\ current_hour = 12
    /\ last_chime_time = 0
    /\ chime_in_progress = FALSE
    /\ hw = RestHw
    /\ presses = 0
    /\ last_cleanup = NoCleanup
    /\ press_budget = budget
    /\ clock_end = now + window
    /\ clock_chime_interval = interval
    /\ chime_log = NoChime

InitClock(budget, window) == InitClockWith(budget, window, chime_interval)


\* Several schedule_action calls made at time t: items is a set of [id, delay].
ScheduleAll(queue, t, items) ==
    UNION ({queue} \cup {schedule_action({}, it.id, t, it.delay, FALSE) : it \in items})

\* ClockMode.schedule_hour_confirmation: flash_<i>_on, flash_<i>_off
HourConfirmation(hour) ==
    {[id |-> <<"flash_on", i + 1>>, delay |-> i * flash_period] : i \in 0..(hour - 1)}
    \cup {[id |-> <<"flash_off", i + 1>>, delay |-> i * flash_period + flash_on_time] :
             i \in 0..(hour - 1)}

\* ClockMode.estimate_chime_duration
estimate_chime_duration(hour, files) ==
    Max(IF files THEN Min(hour, 4) * 2 * UnitsPerSecond ELSE hour * 2 * UnitsPerSecond,
        (hour * UnitsPerSecond) \div 2)

\* The schedule_action calls of the full chime of perform_hourly_chime.
FullChime(hour, files) ==
    {[id |-> <<IF i % 2 = 0 THEN "movement_top" ELSE "movement_bottom", i + 1>>,
      delay |-> i * chime_spacing] : i \in 0..(Min(hour, 6) - 1)}
    \cup {[id |-> <<"intelligent_chime_sequence", 0>>, delay |-> chime_delay],
          [id |-> <<"chime_cleanup", 0>>,
           delay |-> estimate_chime_duration(hour, files) + UnitsPerSecond]}

\* ClockMode.schedule_quiet_intelligent_chime
QuietChime(hour, files) ==
    {[id |-> <<"quiet_intelligent_chime", 0>>, delay |-> quiet_delay],
     [id |-> <<"quiet_cleanup", 0>>,
      delay |-> estimate_chime_duration(hour, files) + UnitsPerSecond \div 2]}

\* The callback of one scheduled action applied to st = [hw, in_progress].
\* Audio playback blocks inside the callback, so nothing is playing when it
\* returns.
Callback(a, st) ==
    LET kind == a.id[1] IN
    CASE kind = "flash_on" -> [st EXCEPT !.hw.leds = "on"]
      [] kind = "flash_off" -> [st EXCEPT !.hw.leds = "off"]
      [] kind = "movement_top" -> [st EXCEPT !.hw.servo = "top"]
      [] kind = "movement_bottom" -> [st EXCEPT !.hw.servo = "bottom"]
      [] kind = "intelligent_chime_sequence" -> st
      [] kind = "chime_cleanup" ->          \* finish_intelligent_chime
             [hw |-> [st.hw EXCEPT !.servo = "mid", !.leds = "off", !.volume = audio_volume],
              in_progress |-> FALSE]
      [] kind = "quiet_intelligent_chime" -> [st EXCEPT !.hw.volume = chime_volume \div 2]
      [] kind = "quiet_cleanup" ->          \* finish_quiet_chimes
             [hw |-> [st.hw EXCEPT !.volume = audio_volume], in_progress |-> FALSE]
      [] OTHER -> st

RECURSIVE RunCallbacks(_, _)
RunCallbacks(order, st) ==
    IF order = <<>> THEN st ELSE RunCallbacks(Tail(order), Callback(Head(order), st))

\* The ascending target_time orders of a set of due actions.
RECURSIVE AscendingOrders(_)
AscendingOrders(S) ==
    IF S = {} THEN {<<>>}
    ELSE LET firsts == {a \in S : \A b \in S : a.target_time <= b.target_time}
         IN  UNION {{<<a>> \o s : s \in AscendingOrders(S \ {a})} : a \in firsts}

\* BaseMode.cleanup: leds.turn_off(), amplifier.stop(), servo.to_midpoint().
cleanup(h) == [h EXCEPT !.leds = "off", !.audio = "stopped", !.servo = "mid"]

\* ClockMode.on_button_press: the hour after a short press.
NextHourNoWrap(hour) == hour + 1

NextHour(hour) == IF hour + 1 > 12 THEN 1 ELSE hour + 1

\* ClockMode.perform_hourly_chime applied to st = [hw, in_progress, queue].
perform_hourly_chime(st, t, hour, battery, reading, files) ==
    LET c == check_conditions(battery, reading) IN
    IF st.in_progress THEN st
    ELSE IF c.condition = "critical_battery"
         THEN [st EXCEPT !.hw.leds = "off", !.in_progress = FALSE]   \* flash_eyes(times=3)
    ELSE IF ~c.light_sufficient
         THEN [st EXCEPT !.in_progress = TRUE,
                         !.queue = ScheduleAll(st.queue, t, QuietChime(hour, files))]
    ELSE [hw |-> [st.hw EXCEPT !.volume = chime_volume, !.leds = "on"],
          in_progress |-> TRUE,
          queue |-> ScheduleAll(st.queue, t, FullChime(hour, files))]

\* main(): run_current_mode() -> ClockMode.run up to its loop: init()
\* (timestamps reset, short-press callback installed) and mode_init (hour 12,
\* confirmation flashes scheduled).
ClockRun ==
    /\ run_pc = "idle"
    /\ current_mode_instance.cls = "ClockMode"
    /\ run_inst' = current_mode_instance
    /\ run_pc' = "loop"
    /\ current_hour' = 12
    /\ last_chime_time' = 0
    /\ chime_in_progress' = FALSE
    /\ scheduled_actions' = ScheduleAll(scheduled_actions, now, HourConfirmation(12))
    /\ button' = setup_button_handling(button, current_mode_instance)
    /\ UNCHANGED <<now, next_action_id, executed, last_drain, cancelled, mgr_vars,
                   last_action_time, last_tick, last_check,
                   hw, presses, last_cleanup, press_budget, clock_end,
                   clock_chime_interval, chime_log,
                   sound_files, fallback_behavior, target_caws, selected_files,
                   configured_variance, interval_variance, last_interval,
                   last_load_env, btn_vars, run_end>>
    /\ init_time' = now

\* The scheduled callbacks that play audio: play_intelligent_chime_sequence
\* and play_quiet_intelligent_chime.
PlaybackKinds == {"intelligent_chime_sequence", "quiet_intelligent_chime"}

\* The branch of perform_hourly_chime that sets chime_in_progress.
ChimePath(battery, reading) ==
    LET c == check_conditions(battery, reading) IN
    IF c.condition = "critical_battery" THEN "critical"
    ELSE IF ~c.light_sufficient THEN "quiet" ELSE "full"

\* check_scheduled_actions when a callback raises: the error is logged inside
\* the drain and the loop of run goes on.
callback_outcome_Propagates(failed) == IF failed THEN "raised" ELSE "done"

callback_outcome(failed) == IF failed THEN "logged" ELSE "done"

\* The callbacks of a drain up to and including the first playback callback.
RECURSIVE ThroughPlayback(_)
ThroughPlayback(order) ==
    IF order = <<>> THEN <<>>
    ELSE IF Head(order).id[1] \in PlaybackKinds THEN <<Head(order)>>
    ELSE <<Head(order)>> \o ThroughPlayback(Tail(order))

\* One iteration of the `while True` loop of ClockMode.run, dt after the
\* previous one: button.update(), check_scheduled_actions(), the chime check.
\* play_ok: amplifier.play_chime_sequence (and the play_wav fallback of the
\* full chime) succeeds in a playback callback that is due. A failing
\* playback leaves the state as a finished one does: the quiet callback has
\* set its volume before it plays, the full one changes nothing.
ClockTickBody(dt, event, battery, reading, files, order1, play_ok) ==
    LET current_time == now + dt
        next_mode == NextMode(available_modes, current_mode_name)
        res == load_mode([instance |-> current_mode_instance, name |-> current_mode_name],
                         next_instance, next_mode, TRUE)
        long == LongPressCycles(button, event)
        \* button.update()
        hour1 == IF event = "short" THEN NextHour(current_hour) ELSE current_hour
        queue1 == IF event = "short"
                  THEN ScheduleAll(scheduled_actions, current_time, HourConfirmation(hour1))
                  ELSE scheduled_actions
        hw1 == IF long THEN cleanup(hw) ELSE hw
        \* check_scheduled_actions()
        due == DueActions(queue1, current_time)
        failed == ~play_ok /\ \E a \in due : a.id[1] \in PlaybackKinds
        \* an error that leaves check_scheduled_actions reaches the
        \* `except Exception` of run: the loop ends
        fatal == callback_outcome(failed) = "raised"
        ran == IF fatal THEN ThroughPlayback(order1) ELSE order1
        st2 == RunCallbacks(ran, [hw |-> hw1, in_progress |-> chime_in_progress])
        queue2 == AfterDrain(queue1, IF fatal THEN Range(ran) ELSE due)
        \* chime check
        chime == ~fatal /\ current_time - last_chime_time >= clock_chime_interval
        st3 == IF chime
               THEN perform_hourly_chime([hw |-> st2.hw, in_progress |-> st2.in_progress,
                                          queue |-> queue2],
                                         current_time, hour1, battery, reading, files)
               ELSE [hw |-> st2.hw, in_progress |-> st2.in_progress, queue |-> queue2]
        log1 == IF failed THEN [chime_log EXCEPT !.play_failed = TRUE] ELSE chime_log
        cleaned1 == IF long THEN cleaned_up \cup {current_mode_instance.id} ELSE cleaned_up
        cleanup1 == IF long
                    THEN [by |-> current_mode_instance.id, at |-> current_time,
                          hw |-> hw1,
                          pending |-> IF current_mode_instance = run_inst
                                      THEN scheduled_actions ELSE {}]
                    ELSE last_cleanup
        end1 == CleanedByLoad(run_end, long, current_mode_instance, run_inst)
    IN
    /\ order1 \in AscendingOrders(due)
    /\ now' = current_time
    /\ current_hour' = hour1
    /\ presses' = IF event = "short" THEN presses + 1 ELSE presses
    /\ IF long
       THEN /\ current_mode_instance' = res.instance
            /\ current_mode_name' = res.name
            /\ next_instance' = next_instance + 1
            /\ last_load' = [requested |-> next_mode, result |-> res.result]
            /\ cycle_count' = cycle_count + 1
       ELSE UNCHANGED <<current_mode_instance, current_mode_name, next_instance,
                        last_load, cycle_count>>
    /\ last_drain' = [at |-> current_time, due |-> due, ran |-> ran]
    /\ scheduled_actions' = st3.queue
    /\ chime_in_progress' = st3.in_progress
    /\ last_chime_time' = IF chime THEN current_time ELSE last_chime_time
    /\ chime_log' = IF ~chime THEN log1
                    ELSE IF st2.in_progress THEN [log1 EXCEPT !.skipped = TRUE]
                    ELSE [path |-> ChimePath(battery, reading), at |-> current_time,
                          play_failed |-> FALSE, skipped |-> FALSE]
    /\ last_tick' = [at |-> current_time, by |-> run_inst.id,
                     was_current |-> run_inst = current_mode_instance,
                     event |-> event, timed |-> IF chime THEN 1 ELSE 0,
                     raised |-> failed, prev_action_time |-> last_chime_time,
                     update |-> "continue"]
    /\ IF fatal
       THEN \* except Exception, then the finally block: cleanup()
            /\ run_pc' = "ended"
            /\ hw' = cleanup(st3.hw)
            /\ cleaned_up' = cleaned1 \cup {run_inst.id}
            /\ last_cleanup' = [by |-> run_inst.id, at |-> current_time,
                                hw |-> cleanup(st3.hw), pending |-> st3.queue]
            /\ run_end' = EndRun(end1, "error")
       ELSE /\ run_pc' = run_pc
            /\ hw' = st3.hw
            /\ cleaned_up' = cleaned1
            /\ last_cleanup' = cleanup1
            /\ run_end' = end1
    /\ UNCHANGED <<next_action_id, executed, cancelled, available_modes, cycle_origin,
                   run_inst, last_action_time, last_check,
                   press_budget, clock_end, clock_chime_interval, aux_rest, init_time>>

ClockStep == 5               \* time between two iterations of the clock loop
MaxPresses == 1              \* short presses in one behaviour of SpecClock
ClockWindow == 120           \* clock units one behaviour of SpecClock covers

\* The sensors and the sound-file configuration are inputs of the iteration
\* only when the chime check reads them, the playback result only when a
\* playback callback is due.
ClockTick(event) ==
    LET current_time == now + ClockStep
        chime == current_time - last_chime_time >= clock_chime_interval
        queue1 == IF event = "short"
                  THEN ScheduleAll(scheduled_actions, current_time,
                                   HourConfirmation(NextHour(current_hour)))
                  ELSE scheduled_actions
        plays == \E a \in DueActions(queue1, current_time) : a.id[1] \in PlaybackKinds
    IN
    /\ run_pc = "loop"
    /\ run_inst.cls = "ClockMode"
    /\ current_time <= clock_end
    /\ event = "short" => presses < press_budget
    /\ event = "long" => cycle_count < MaxCycles
    /\ \E battery \in IF chime THEN BatteryInputs ELSE {NoBattery},
          reading \in IF chime THEN LightInputs ELSE {light_threshold},
          files \in IF chime THEN BOOLEAN ELSE {TRUE},
          order1 \in AscendingOrders(DueActions(queue1, current_time)),
          play_ok \in IF plays THEN BOOLEAN ELSE {TRUE} :
           ClockTickBody(ClockStep, event, battery, reading, files, order1, play_ok)

\* KeyboardInterrupt in the loop of ClockMode.run: the finally block calls
\* cleanup() and run() returns.
ClockInterrupt ==
    /\ run_pc = "loop"
    /\ run_inst.cls = "ClockMode"
    /\ run_pc' = "ended"
    /\ hw' = cleanup(hw)
    /\ cleaned_up' = cleaned_up \cup {run_inst.id}
    /\ last_cleanup' = [by |-> run_inst.id, at |-> now, hw |-> cleanup(hw),
                        pending |-> scheduled_actions]
    /\ run_end' = EndRun(run_end, "interrupt")
    /\ UNCHANGED <<now, queue_vars, available_modes, current_mode_name,
                   current_mode_instance, next_instance, last_load, cycle_origin,
                   cycle_count, run_inst, last_action_time, last_tick, last_check,
                   current_hour, last_chime_time, chime_in_progress, presses,
                   press_budget, clock_end, clock_chime_interval, chime_log,
                   aux_rest, init_time>>

\* ================================================= Amplifier clip selection
MaxWeight == 3               \* largest caw count of a configured clip
MaxTarget == 6               \* largest target_caws

\* The configured file names in the order of the sound_files dict.
ClipNames == <<"a.wav", "b.wav", "c.wav">>

FallbackBehaviors == {"repeat_single", "closest_match", "random_fill"}

NoSelection == [done |-> FALSE, files |-> <<>>, greedy |-> <<>>]

\* name[0]: the first character of a file name
FirstChar(name) ==
    CASE name = "a.wav" -> "a" [] name = "b.wav" -> "b" [] name = "c.wav" -> "c"
      [] OTHER -> name

\* [None] * n
Nones(n) == [i \in 1..n |-> "None"]

Repeat(x, n) == [i \in 1..n |-> x]

IsName(n, files) == n \in DOMAIN files

\* available_files before the sort: the configured files that exist.
Available(files) == SelectSeq(ClipNames, LAMBDA n : IsName(n, files))

RemoveAt(seq, i) == SubSeq(seq, 1, i - 1) \o SubSeq(seq, i + 1, Len(seq))

Unsorted(seq, files) == seq

\* available_files.sort(key=count, reverse=True): stable, largest first.
RECURSIVE SortByCount(_, _)
SortByCount(seq, files) ==
    IF seq = <<>> THEN <<>>
    ELSE LET i == CHOOSE i \in 1..Len(seq) :
                      /\ \A j \in 1..Len(seq) : files[seq[j]] <= files[seq[i]]
                      /\ \A j \in 1..(i - 1) : files[seq[j]] < files[seq[i]]
         IN  <<seq[i]>> \o SortByCount(RemoveAt(seq, i), files)

\* The first file of the sorted list whose count fits, 0 when none does.
FirstFit(sorted, files, remaining) ==
    IF \E i \in 1..Len(sorted) : files[sorted[i]] <= remaining
    THEN CHOOSE i \in 1..Len(sorted) :
             /\ files[sorted[i]] <= remaining
             /\ \A j \in 1..(i - 1) : files[sorted[j]] > remaining
    ELSE 0

\* min(available_files, key=count)[0]: the first file of smallest count.
Smallest(sorted, files) ==
    sorted[CHOOSE i \in 1..Len(sorted) :
               /\ \A j \in 1..Len(sorted) : files[sorted[i]] <= files[sorted[j]]
               /\ \A j \in 1..(i - 1) : files[sorted[j]] > files[sorted[i]]]

\* "repeat_single" without a single-caw file: the smallest available file.
NoSingleFallback(sorted, files) == IF sorted = <<>> THEN {<<>>} ELSE {<<Smallest(sorted, files)>>}

\* Amplifier._handle_fallback: the lists it may return (random.choice).
handle_fallback(remaining, sorted, files, behavior) ==
    LET singles == {n \in Range(sorted) : files[n] = 1} IN
    CASE behavior = "repeat_single" ->
             IF singles # {}
             THEN {Repeat(FirstChar(n), remaining) : n \in singles}
             ELSE NoSingleFallback(sorted, files)
      [] behavior = "closest_match" ->
             IF sorted = <<>> THEN {<<>>} ELSE {<<Smallest(sorted, files)>>}
      [] behavior = "random_fill" -> {Nones(remaining)}
      [] OTHER -> {<<>>}

\* The greedy loop of _find_optimal_file_combination.
RECURSIVE Greedy(_, _, _, _, _)
Greedy(sorted, files, remaining, selected, behavior) ==
    IF remaining <= 0 THEN {selected}
    ELSE LET fit == FirstFit(sorted, files, remaining) IN
         IF fit # 0
         THEN Greedy(sorted, files, remaining - files[sorted[fit]],
                     Append(selected, sorted[fit]), behavior)
         ELSE {selected \o fb : fb \in handle_fallback(remaining, sorted, files, behavior)}

\* The files the greedy loop appends before it ends or reaches the fallback,
\* each with remaining_caws at the time it was chosen.
RECURSIVE GreedyPhase(_, _, _)
GreedyPhase(sorted, files, remaining) ==
    IF remaining <= 0 THEN <<>>
    ELSE LET fit == FirstFit(sorted, files, remaining) IN
         IF fit = 0 THEN <<>>
         ELSE <<[file |-> sorted[fit], before |-> remaining]>>
              \o GreedyPhase(sorted, files, remaining - files[sorted[fit]])

\* Amplifier._find_optimal_file_combination: the selections it may return.
find_optimal_file_combination(files, target, behavior) ==
    IF target <= 0 THEN {<<>>}
    ELSE IF Available(files) = <<>> THEN {Nones(target)}
    ELSE {IF sel = <<>> THEN Nones(target) ELSE sel :
             sel \in Greedy(SortByCount(Available(files), files), files, target, <<>>, behavior)}

\* The caws a selection plays: the configured count of each selected file.
RECURSIVE TotalCaws(_, _)
TotalCaws(sel, files) ==
    IF sel = <<>> THEN 0
    ELSE (IF Head(sel) \in DOMAIN files THEN files[Head(sel)] ELSE 0) + TotalCaws(Tail(sel), files)

SoundFileConfigs ==
    UNION {[names -> 1..MaxWeight] : names \in SUBSET Range(ClipNames)}

InitAmplifier ==
    /\ sound_files = [n \in {} |-> 0]
    /\ fallback_behavior = "repeat_single"
    /\ target_caws = 0
    /\ selected_files = NoSelection

select_files ==
    /\ ~selected_files.done
    /\ \E sel \in find_optimal_file_combination(sound_files, target_caws, fallback_behavior) :
           selected_files' =
               [done |-> TRUE, files |-> sel,
                greedy |-> IF Available(sound_files) = <<>> THEN <<>>
                           ELSE GreedyPhase(SortByCount(Available(sound_files), sound_files),
                                            sound_files, target_caws)]
    /\ UNCHANGED <<now, queue_vars, mgr_vars, run_vars, clock_vars,
                   sound_files, fallback_behavior, target_caws,
                   configured_variance, interval_variance, last_interval,
                   button, last_load_env, btn_vars, run_end, init_time>>

\* ===================================================== load_mode environment
NoLoadEnv == [called |-> FALSE, mode_name |-> "default", before |-> NoInstance,
              before_name |-> "default", leds_ok |-> TRUE, base_ok |-> TRUE,
              cleanup_ok |-> TRUE, calls |-> <<>>, result |-> "none"]

InitLoadEnv == last_load_env = NoLoadEnv

DefaultFailureSwallowed(cur) ==
    [instance |-> cur.instance, name |-> cur.name, result |-> "ok"]

\* load_mode("default") when BaseMode() raises: _create_mode_instance raises
\* before the assignment, the handler re-raises "Cannot load any mode".
DefaultFailure(cur) ==
    [instance |-> cur.instance, name |-> cur.name, result |-> "raised"]

\* load_mode of another name when BaseMode() raises: every constructor calls
\* BaseMode.__init__, so the fallbacks of _create_mode_instance raise from
\* their handlers and the BaseMode() of load_mode's own handler raises too.
FallbackFailure(cur) ==
    [instance |-> cur.instance, name |-> cur.name, result |-> "raised"]

\* load_mode with the constructor of BaseMode as an input (base_ok: it works).
load_mode_env(cur, next_id, mode_name, leds_ok, base_ok) ==
    IF base_ok THEN load_mode(cur, next_id, mode_name, leds_ok)
    ELSE IF mode_name = "default" THEN DefaultFailure(cur)
    ELSE FallbackFailure(cur)

cleanup_outgoing_Propagates(cleanup_ok) == IF cleanup_ok THEN "done" ELSE "raised"

\* load_mode: the call of the outgoing instance's cleanup in its own
\* try/except Exception; a raising cleanup is logged.
cleanup_outgoing(cleanup_ok) == IF cleanup_ok THEN "done" ELSE "swallowed"

\* The calls load_mode makes on mode objects, in order: cleanup of the
\* outgoing instance, then _create_mode_instance; an exception leaving the
\* cleanup would take load_mode to its handler before the construction.
load_mode_calls(cleanup_ok) ==
    IF cleanup_outgoing(cleanup_ok) = "raised"
    THEN <<"cleanup">> ELSE <<"cleanup", "_create_mode_instance">>

\* load_mode with the outgoing cleanup as an input (cleanup_ok: it returns).
load_mode_full(cur, next_id, mode_name, leds_ok, base_ok, cleanup_ok) ==
    IF cleanup_outgoing(cleanup_ok) = "raised"
    THEN IF mode_name # "default" /\ base_ok
         THEN [instance |-> [id |-> next_id, cls |-> "BaseMode"],
               name |-> FallbackName(mode_name), result |-> "ok"]
         ELSE [instance |-> cur.instance, name |-> cur.name, result |-> "raised"]
    ELSE load_mode_env(cur, next_id, mode_name, leds_ok, base_ok)

\* A load_mode(mode_name) call; an exception it raises ends the program.
LoadModeEnv(mode_name, leds_ok, base_ok, cleanup_ok) ==
    LET res == load_mode_full([instance |-> current_mode_instance, name |-> current_mode_name],
                              next_instance, mode_name, leds_ok, base_ok, cleanup_ok)
    IN  /\ next_instance <= MaxLoads
        /\ last_load_env.result # "raised"
        /\ cleaned_up' = cleaned_up \cup {current_mode_instance.id}
        /\ current_mode_instance' = res.instance
        /\ current_mode_name' = res.name
        /\ next_instance' = next_instance + 1
        /\ last_load' = [requested |-> mode_name, result |-> res.result]
        /\ last_load_env' = [called |-> TRUE, mode_name |-> mode_name,
                             before |-> current_mode_instance,
                             before_name |-> current_mode_name,
                             leds_ok |-> leds_ok, base_ok |-> base_ok,
                             cleanup_ok |-> cleanup_ok,
                             calls |-> load_mode_calls(cleanup_ok),
                             result |-> res.result]
        /\ cycle_origin' = res.name
        /\ cycle_count' = 0
        /\ UNCHANGED <<available_modes, now, queue_vars, run_vars, clock_vars,
                       sound_files, fallback_behavior, target_caws, selected_files,
                       configured_variance, interval_variance, last_interval, button,
                       btn_vars, run_end, init_time>>

\* ========================================================= specifications
InitQueueSpec ==
    /\ now = 0
    /\ InitQueue
    /\ ConstructManager(<<"default">>, "default", TRUE)
    /\ InitIdle
    /\ InitClock(0, 0)
    /\ InitAmplifier
    /\ InitRandom
    /\ InitButton
    /\ InitLoadEnv

NextQueue ==
    \/ \E delay \in 0..MaxDelay, fails \in BOOLEAN : ScheduleAction(delay, fails)
    \/ check_scheduled_actions
    \/ cancel_all
    \/ \E d \in 1..MaxDelay : Elapse(d)

SpecQueue == InitQueueSpec /\ [][NextQueue]_vars

InitMgrSpec ==
    /\ now = 0
    /\ InitQueue
    /\ InitMgr
    /\ InitIdle
    /\ InitClock(0, 0)
    /\ InitAmplifier
    /\ InitRandom
    /\ InitButton
    /\ InitLoadEnv

NextMgr ==
    \/ \E mode_name \in ModeNames, leds_ok \in LedsInputs : LoadMode(mode_name, leds_ok)
    \/ \E leds_ok \in LedsInputs : CycleMode(leds_ok)

SpecMgr == InitMgrSpec /\ [][NextMgr]_vars

\* The configurations SpecRun starts from: "default" and one other mode.
RunConfigs == {cfg \in Configs : Len(cfg) = 2 /\ cfg[1] = "default" /\ cfg[2] # "default"}

InitRunSpec ==
    /\ now = 0
    /\ InitQueue
    /\ \E modes \in RunConfigs : ConstructManager(modes, "default", TRUE)
    /\ InitIdle
    /\ InitClock(0, 0)
    /\ InitAmplifier
    /\ InitRandom
    /\ InitButton
    /\ InitLoadEnv

NextRun ==
    \/ \E battery \in BatteryInputs, reading \in LightInputs, wavs \in BOOLEAN :
           RunCurrentMode(battery, reading, wavs)
    \/ \E dt \in 0..MaxStep, event \in ButtonEvents : Tick(dt, event)

SpecRun == InitRunSpec /\ [][NextRun]_vars

\* ClockMode.run under the main program; monotonic time at the start of the
\* mode is before or after the first chime interval.
ClockStarts == {0, chime_interval}

InitClockSpec ==
    /\ now \in ClockStarts
    /\ InitQueue
    /\ ConstructManager(<<"clock", "default">>, "clock", TRUE)
    /\ InitIdle
    /\ InitClock(MaxPresses, ClockWindow)
    /\ InitAmplifier
    /\ InitRandom
    /\ InitButton
    /\ InitLoadEnv

NextClock ==
    \/ ClockRun
    \/ \E event \in ButtonEvents : ClockTick(event)
    \/ ClockInterrupt

SpecClock == InitClockSpec /\ [][NextClock]_vars

\* Amplifier._find_optimal_file_combination applied to every configuration
\* of up to three clips, every fallback behaviour and every target.
InitChimeSpec ==
    /\ now = 0
    /\ InitQueue
    /\ ConstructManager(<<"clock", "default">>, "clock", TRUE)
    /\ InitIdle
    /\ InitClock(0, 0)
    /\ sound_files \in SoundFileConfigs
    /\ fallback_behavior \in FallbackBehaviors
    /\ target_caws \in 1..MaxTarget
    /\ selected_files = NoSelection
    /\ InitRandom
    /\ InitButton
    /\ InitLoadEnv

NextChime == select_files

SpecChime == InitChimeSpec /\ [][NextChime]_vars

\* BaseMode.run of a RandomMode instance, for every configured variance.
InitRandomSpec ==
    /\ now = 0
    /\ InitQueue
    /\ ConstructManager(<<"random", "default">>, "random", TRUE)
    /\ InitIdle
    /\ InitClock(0, 0)
    /\ InitAmplifier
    /\ configured_variance \in VarianceInputs
    /\ interval_variance = NotInitialised
    /\ last_interval = NoInterval
    /\ InitButton
    /\ InitLoadEnv

NextRandom == NextRun

SpecRandom == InitRandomSpec /\ [][NextRandom]_vars

\* load_mode under every outcome of the outgoing cleanup, of the LED flash
\* and of BaseMode().
InitLoadSpec ==
    /\ now = 0
    /\ InitQueue
    /\ InitMgr
    /\ InitIdle
    /\ InitClock(0, 0)
    /\ InitAmplifier
    /\ InitRandom
    /\ InitButton
    /\ InitLoadEnv

NextLoad ==
    \E mode_name \in ModeNames, leds_ok \in BOOLEAN, base_ok \in BOOLEAN,
       cleanup_ok \in BOOLEAN :
        LoadModeEnv(mode_name, leds_ok, base_ok, cleanup_ok)

SpecLoad == InitLoadSpec /\ [][NextLoad]_vars

\* ClockMode.run with short presses only: the hour setting. The button is
\* pressed when the confirmation flashes of the previous press are over.
MaxHourPresses == 13         \* short presses in one behaviour of SpecHour
\* long enough for every press to wait for the flashes of the one before
HourWindow == 14 * MaxHourPresses * ClockStep

InitHourSpec ==
    /\ now = 0
    /\ InitQueue
    /\ ConstructManager(<<"clock", "default">>, "clock", TRUE)
    /\ InitIdle
    /\ InitClock(MaxHourPresses, HourWindow)
    /\ InitAmplifier
    /\ InitRandom
    /\ InitButton
    /\ InitLoadEnv

NextHourSpec ==
    \/ ClockRun
    \/ \E event \in {"none", "short"} :
           /\ event = "short" => scheduled_actions = {}
           /\ ClockTick(event)

SpecHour == InitHourSpec /\ [][NextHourSpec]_vars

\* The queue with callbacks that schedule further actions.
InitReentrySpec == InitQueueSpec

NextReentry ==
    \/ \E delay \in 0..MaxDelay, spawn \in {NoSpawn} \cup (0..MaxSpawnDelay) :
           ScheduleReentrant(delay, FALSE, spawn)
    \/ drain_due
    \/ \E d \in 1..MaxDelay : Elapse(d)

SpecReentry == InitReentrySpec /\ [][NextReentry]_vars

\* BaseMode.run with every way of leaving the loop: a mode_update hook
\* returning False, KeyboardInterrupt, an exception of the timed action.
InitEndSpec ==
    /\ now = 0
    /\ InitQueue
    /\ ConstructManager(<<"default", "clock">>, "default", TRUE)
    /\ InitIdle
    /\ InitClock(0, 0)
    /\ InitAmplifier
    /\ InitRandom
    /\ InitButton
    /\ InitLoadEnv

NextEnd ==
    \/ NextRun
    \/ \E dt \in 0..MaxStep, event \in ButtonEvents, update \in UpdateOutcomes :
           TickWith(dt, event, update)
    \/ RunInterrupt

SpecEnd == InitEndSpec /\ [][NextEnd]_vars

\* ClockMode.run left to iterate: every chime that starts has the time to
\* finish before the behaviour ends. The chime interval is the one of config
\* "debug" or a clock_chime_interval_minutes shorter than a chime lasts.
QuickInterval == 6 * UnitsPerSecond
LongestChime == estimate_chime_duration(12, FALSE) + UnitsPerSecond
FinishWindow == 760          \* clock units one behaviour of SpecFinish covers

InitFinishSpec ==
    /\ now \in ClockStarts
    /\ InitQueue
    /\ ConstructManager(<<"clock", "default">>, "clock", TRUE)
    /\ InitIdle
    /\ \E interval \in {QuickInterval, chime_interval} :
           InitClockWith(MaxPresses, FinishWindow, interval)
    /\ InitAmplifier
    /\ InitRandom
    /\ InitButton
    /\ InitLoadEnv

NextFinish ==
    \/ ClockRun
    \/ \E event \in {"none", "short"} :
           /\ event = "short" => scheduled_actions = {}
           /\ ClockTick(event)
           /\ chime_log'.at = now' => now' + LongestChime + ClockStep <= clock_end

\* The `while True` loop of run iterates as long as nothing ends it.
SpecFinish == InitFinishSpec /\ [][NextFinish]_vars /\ WF_vars(NextFinish)

\* Button.update polled by a run loop. The button is constructed when
\* time.monotonic() has passed long_press_time, released.
ButtonConstructed == long_press_time + 1

InitButtonSpec ==
    /\ now = ButtonConstructed
    /\ InitQueue
    /\ ConstructManager(<<"default", "clock">>, "default", TRUE)
    /\ InitIdle
    /\ InitClock(0, ButtonWindow)
    /\ InitAmplifier
    /\ InitRandom
    /\ InitButton
    /\ InitLoadEnv

NextButton == \E pin \in BOOLEAN : ButtonUpdate(pin)

SpecButton == InitButtonSpec /\ [][NextButton]_vars

Init == InitMgrSpec
Next == NextQueue \/ NextMgr \/ NextRun \/ NextClock \/ NextChime \/ NextLoad \/ NextReentry \/ NextEnd \/ NextFinish \/ NextButton
Spec == Init /\ [][Next]_vars

\* ================================================================= claims
PendingIds == {a.id : a \in scheduled_actions}

C2_CancelledNeverExecuted ==
    \A c \in cancelled : executed[c.id].count = 0 /\ c.id \notin PendingIds

\* A drain took place after the target_time of a cancelled action had passed.
C2_Witness ==
    \E c \in cancelled :
        /\ c.target_time < last_drain.at
        /\ executed[c.id].count = 0
        /\ last_drain.ran = <<>>

\* C3: every scheduled action is executed at most once and is gone from the
\* queue once executed, also when its callback failed.
C3_AtMostOnce ==
    \A id \in 1..MaxActions :
        /\ executed[id].count <= 1
        /\ executed[id].count = 1 => id \notin PendingIds

\* An action whose callback failed in an earlier drain, left alone by a later
\* drain at a later time.
C3_Witness ==
    \E id \in 1..MaxActions :
        /\ executed[id].count = 1
        /\ executed[id].failures = 1
        /\ last_drain.at >= 0
        /\ \A i \in 1..Len(last_drain.ran) : last_drain.ran[i].id # id
        /\ last_drain.ran # <<>>

\* C4: a drain executes every action that was due when it started, whether
\* or not an earlier callback of the same drain failed, and leaves none of
\* them (the failed one included) in the queue.
C4_FaultIsolation ==
    /\ Range(last_drain.ran) = last_drain.due
    /\ Len(last_drain.ran) = Cardinality(last_drain.due)
    /\ \A a \in last_drain.due : a.id \notin PendingIds

\* A drain in which a callback failed and a later one still ran.
C4_Witness ==
    \E i, j \in 1..Len(last_drain.ran) :
        i < j /\ last_drain.ran[i].fails /\ ~last_drain.ran[j].fails

\* C5: from any mode of available_modes, N = Len(available_modes) consecutive
\* cycle_mode calls return the manager to the mode it started from.
C5_CycleReturns ==
    (cycle_origin \in Range(available_modes) /\ cycle_count = Len(available_modes))
        => current_mode_name = cycle_origin

\* C6: current_mode_name is always a member of available_modes.
C6_CurrentModeAvailable == current_mode_name \in Range(available_modes)

Constructible(name) ==
    create_mode_instance(name) \in
        {Made("BaseMode"), Made(SuffixedImport(name)), Made(PlainImport(name))}
    /\ (name # "default" =>
           \/ SuffixedImport(name) \notin {"ImportError", "NoClass"}
           \/ /\ SuffixedImport(name) = "ImportError"
              /\ PlainImport(name) \notin {"ImportError", "NoClass"})

\* C7: load_mode of a name that is not listed in available_modes, or whose
\* mode cannot be constructed, does not raise and records the default mode
\* as the current mode.
C7_UnknownFallsBackToDefault ==
    (last_load.requested \notin Range(available_modes) \/ ~Constructible(last_load.requested))
        => (last_load.result = "ok" /\ current_mode_name = "default")

\* C8: every iteration of a run loop, and every timed action, is performed by
\* the instance that was the manager's current_mode_instance when the
\* iteration started.
C8_OnlyCurrentModeTicks == last_tick.by # 0 => last_tick.was_current

\* C9: every check_conditions_and_act invokes exactly one hook; it is
\* perform_battery_warning whenever the battery is critical (also in the
\* dark), and perform_night_action exactly when the battery is not critical
\* and the light is not sufficient.
C9_ConditionPriority ==
    last_check.trigger # "none" =>
        LET h == last_check.hooks
            critical == /\ last_check.battery.enabled
                        /\ last_check.battery.voltage < voltage_critical
            dark == last_check.reading <= light_threshold
        IN  /\ Len(h) = 1
            /\ h[1] \in {"perform_battery_warning", "perform_night_action", "perform_action"}
            /\ critical => h[1] = "perform_battery_warning"
            /\ h[1] = "perform_night_action" <=> (~critical /\ dark)

\* A check made with a critical battery in the dark.
C9_Witness ==
    /\ last_check.trigger = "timed"
    /\ last_check.battery.enabled
    /\ last_check.battery.voltage < voltage_critical
    /\ last_check.reading <= light_threshold
    /\ last_check.hooks = <<"perform_battery_warning">>

\* C10: with action_interval = 60 and the mode started at t = 0, no timed
\* check fires at a tick before t = 60, and the tick at t = 61 (no timed
\* check having fired before it) fires exactly one and sets
\* last_action_time to 61.
C10_EndToEndTiming ==
    /\ last_tick.timed = 1 => last_tick.at >= 60
    /\ (last_tick.at = 61 /\ last_tick.prev_action_time = 0)
           => (last_tick.timed = 1 /\ last_action_time = 61)

\* The timing of C10 on the iterations in which no hook raises.
TimingWhenNoHookRaises ==
    /\ last_tick.timed = 1 => last_tick.at >= 60
    /\ (last_tick.at = 61 /\ last_tick.prev_action_time = 0 /\ ~last_tick.raised)
           => (last_tick.timed = 1 /\ last_action_time = 61)

\* C11: a hook that raises during an iteration of the run loop does not end
\* the loop: after the iteration the mode is still looping.
C11_HookErrorContained == last_tick.raised => run_pc = "loop"

\* C12: right after any cleanup the hardware is in the rest state: LEDs off,
\* audio stopped, servo at midpoint, volume at the configured baseline.
C12_CleanupRestState == last_cleanup.by # 0 => last_cleanup.hw = RestHw

\* C13: once the running mode has been cleaned up by a mode switch, no action
\* that was pending in it at the switch is executed.
C13_SwitchCancelsPending ==
    (last_cleanup.by # 0 /\ last_cleanup.by = run_inst.id /\ last_drain.at >= last_cleanup.at)
        => Range(last_drain.ran) \cap last_cleanup.pending = {}

\* C14: a perform_action run by the loop makes no hardware or sleep call
\* inside the tick; it only schedules its steps, so the loop polls the
\* button between the first and the last step.
C14_ActionIsScheduled ==
    "perform_action" \in Range(last_check.hooks)
        => (perform_action_calls = <<>> /\ perform_action_scheduled # {})

\* C15: under the "repeat_single" fallback the selected clips never total
\* more caws than the target, and total exactly the target when a clip of
\* one caw is available.
C15_RepeatSingleNeverExceeds ==
    (selected_files.done /\ fallback_behavior = "repeat_single" /\ DOMAIN sound_files # {})
        => /\ TotalCaws(selected_files.files, sound_files) <= target_caws
           /\ (\E n \in DOMAIN sound_files : sound_files[n] = 1)
                  => TotalCaws(selected_files.files, sound_files) = target_caws

\* With a clip of one caw among the files the greedy loop always reaches the
\* target exactly, whatever the fallback behaviour.
ExactWithSingleCaw ==
    (selected_files.done /\ \E n \in DOMAIN sound_files : sound_files[n] = 1)
        => TotalCaws(selected_files.files, sound_files) = target_caws

\* C16: after RandomMode.mode_init the variance lies in [0, 1] (0..100
\* percent); a configured value outside the range is replaced by 0.25, a
\* configured value inside it is kept.
C16_VarianceValidated ==
    interval_variance.init =>
        /\ interval_variance.value \in 0..100
        /\ (configured_variance.set /\ configured_variance.value \notin 0..100)
               => interval_variance.value = default_variance
        /\ (configured_variance.set /\ configured_variance.value \in 0..100)
               => interval_variance.value = configured_variance.value

\* mode_init has replaced a configured variance above 1.
C16_Witness ==
    /\ interval_variance.init
    /\ configured_variance.set
    /\ configured_variance.value > 100
    /\ interval_variance.value = default_variance
    /\ run_inst.cls = "RandomMode"

\* C17: the wait before a timed action trigger of RandomMode is an interval
\* sampled by get_next_interval from [base*(1-variance), base*(1+variance)].
C17_IntervalResampled ==
    (run_inst.cls = "RandomMode" /\ last_tick.timed = 1)
        => /\ last_interval.sampled
           /\ last_interval.value \in get_next_interval(action_interval, interval_variance.value)
           /\ last_tick.at - last_tick.prev_action_time >= last_interval.value

\* C18: initialising a mode replaces the short-press callback only; the
\* long-press callback stays the global handler, and a long press handled by
\* the loop cycles the mode manager to a newly loaded mode.
C18_LongPressStaysGlobal ==
    /\ button.on_long_press = GlobalLongPress
    /\ run_pc # "idle" => button.on_press = ModeShortPress(run_inst)
    /\ last_tick.event = "long"
           => cycle_count >= 1 /\ current_mode_instance.id = next_instance - 1

\* A second long press handled after the mode installed its short-press
\* callback.
C18_Witness ==
    /\ run_pc = "loop"
    /\ button.on_press = ModeShortPress(run_inst)
    /\ last_tick.event = "long"
    /\ cycle_count = 2
    /\ current_mode_instance.id = next_instance - 1

\* C19: load_mode("default") whose construction fails raises and installs
\* nothing; a failed load of any other name installs a new default-mode
\* (BaseMode) instance and returns True.
C19_DefaultFailureFatal ==
    last_load_env.called =>
        /\ (last_load_env.mode_name = "default" /\ ~last_load_env.base_ok)
               => /\ last_load_env.result = "raised"
                  /\ current_mode_instance = last_load_env.before
                  /\ current_mode_name = last_load_env.before_name
        /\ ( /\ last_load_env.mode_name # "default"
             /\ last_load_env.base_ok
             /\ (~Constructible(last_load_env.mode_name) \/ ~last_load_env.leds_ok) )
               => /\ last_load_env.result = "ok"
                  /\ current_mode_instance.cls = "BaseMode"
                  /\ current_mode_instance # last_load_env.before
                  /\ current_mode_name \in {"default", last_load_env.mode_name}

\* load_mode("default") failed in its constructor while a ClockMode was
\* installed.
C19_Witness ==
    /\ last_load_env.called
    /\ last_load_env.mode_name = "default"
    /\ ~last_load_env.base_ok
    /\ last_load_env.result = "raised"
    /\ last_load_env.before.cls = "ClockMode"
    /\ current_mode_instance.cls = "ClockMode"

\* C20: after mode_init and any number of short presses current_hour is in
\* 1..12; every press advances it by one, 12 wrapping to 1, so that it is
\* 12 advanced presses times modulo 12 and 12 presses restore it.
C20_HourWraps ==
    (run_pc = "loop" /\ run_inst.cls = "ClockMode")
        => /\ current_hour \in 1..12
           /\ current_hour = ((11 + presses) % 12) + 1

\* Thirteen presses: the hour went from 12 through 1..12 and on to 1.
C20_Witness ==
    /\ run_pc = "loop"
    /\ run_inst.cls = "ClockMode"
    /\ presses = 13
    /\ current_hour = 1

\* C21: a drain whose callbacks schedule new actions executes exactly the
\* actions that were due when it started, each at or after its target_time;
\* no action is lost (every id handed out is pending or was executed once),
\* and an action scheduled by a callback is still pending after that drain,
\* to be executed by a later one.
C21_ReentrantScheduling ==
    /\ Range(last_drain.ran) = last_drain.due
    /\ \A i \in 1..Len(last_drain.ran) : last_drain.ran[i].target_time <= last_drain.at
    /\ \A id \in 1..(next_action_id - 1) :
           \/ id \in PendingIds /\ executed[id].count = 0
           \/ id \notin PendingIds /\ executed[id].count = 1
    /\ \A i \in 1..Len(last_drain.ran) :
           last_drain.ran[i].spawn # NoSpawn
               => \E c \in scheduled_actions :
                      /\ c.parent = last_drain.ran[i].id
                      /\ c.target_time = last_drain.at + last_drain.ran[i].spawn
                      /\ executed[c.id].count = 0

\* A drain executed an action that a callback of an earlier drain had
\* scheduled with delay 0, while another action was still pending.
C21_Witness ==
    /\ \E i \in 1..Len(last_drain.ran) :
           /\ last_drain.ran[i].parent # 0
           /\ executed[last_drain.ran[i].parent].count = 1
           /\ last_drain.ran[i].target_time < last_drain.at
    /\ scheduled_actions # {}

C23_CleanupErrorSwallowed ==
    last_load_env.called =>
        /\ last_load_env.calls = <<"cleanup", "_create_mode_instance">>
        /\ last_load_env.before.id \in cleaned_up
        /\ (~last_load_env.cleanup_ok /\ last_load_env.base_ok /\ last_load_env.leds_ok)
               => /\ last_load_env.result = "ok"
                  /\ current_mode_instance # last_load_env.before
                  /\ current_mode_instance.id \notin cleaned_up
                  /\ Constructible(last_load_env.mode_name)
                         => /\ current_mode_name = last_load_env.mode_name
                            /\ current_mode_instance.cls =
                                   create_mode_instance(last_load_env.mode_name).cls

\* load_mode("clock") succeeded although the cleanup of the outgoing default
\* mode raised.
C23_Witness ==
    /\ last_load_env.called
    /\ ~last_load_env.cleanup_ok
    /\ last_load_env.before.cls = "BaseMode"
    /\ last_load_env.mode_name = "clock"
    /\ last_load_env.result = "ok"
    /\ current_mode_instance.cls = "ClockMode"

\* C24: an iteration whose mode_update returns False ends the loop, and
\* however the loop ended (stop, interrupt, fatal error) cleanup has been
\* called exactly once on the instance by the time run returns.
C24_CleanupOnceAtEnd ==
    /\ last_tick.update = "stop" => run_pc = "ended" /\ run_end.reason = "stop"
    /\ run_pc = "ended"
           => /\ run_end.reason \in {"stop", "interrupt", "fatal"}
              /\ run_end.cleanups = 1
              /\ run_inst.id \in cleaned_up

\* The finally block of run calls cleanup once; a second call on the same
\* instance comes from a load_mode during the loop.
FinallyCleansUpOnce ==
    /\ last_tick.update = "stop" => run_pc = "ended" /\ run_end.reason = "stop"
    /\ run_pc = "ended"
           => /\ run_end.reason \in {"stop", "interrupt", "fatal"}
              /\ run_end.cleanups = IF run_inst = current_mode_instance THEN 1 ELSE 2
              /\ run_inst.id \in cleaned_up
    /\ run_pc = "loop"
           => run_end.cleanups = IF run_inst = current_mode_instance THEN 0 ELSE 1

\* C25: TERMINATED is final: an instance on which cleanup has been called
\* (by its run loop or by load_mode) goes through no further loop iteration
\* and performs no further timed or button-triggered action: when the
\* instance of the latest iteration has been cleaned up, that happened in
\* this iteration (its loop ended, or the long press it handled loaded
\* another mode), not before it.
C25_TerminatedIsFinal ==
    last_tick.by \in cleaned_up
        => /\ last_tick.was_current
           /\ run_pc = "ended" \/ last_tick.event = "long"

\* C26: a chime of ClockMode comes no earlier than one chime interval after
\* init (the first one) or after the previous chime, and last_chime_time is
\* then the time of the iteration that chimed.
C26_TriggersSpaced ==
    (last_tick.timed = 1 /\ run_inst.cls = "ClockMode")
        => /\ last_tick.at - Max(init_time, last_tick.prev_action_time) >= chime_interval
           /\ last_chime_time = last_tick.at

\* The chimes after the first one are at least one interval after the chime
\* before them.
LaterChimesSpaced ==
    (last_tick.timed = 1 /\ run_inst.cls = "ClockMode")
        => /\ last_tick.at - last_tick.prev_action_time >= chime_interval
           /\ last_chime_time = last_tick.at

\* C27: every file the greedy loop appends is one of largest caw count among
\* the available files whose count does not exceed the count remaining at
\* that step; the remaining count starts at the target, goes down by the
\* count of each file and never becomes negative; the files appended are
\* the beginning of the selection returned.
C27_GreedyLargestFirst ==
    selected_files.done =>
        LET g == selected_files.greedy
            w(i) == sound_files[g[i].file]
        IN  /\ Len(g) <= Len(selected_files.files)
            /\ \A i \in 1..Len(g) :
                   /\ selected_files.files[i] = g[i].file
                   /\ g[i].before = IF i = 1 THEN target_caws ELSE g[i - 1].before - w(i - 1)
                   /\ w(i) <= g[i].before
                   /\ \A n \in DOMAIN sound_files :
                          sound_files[n] <= g[i].before => sound_files[n] <= w(i)

\* The loop chose the three-caw file listed last before the one-caw file
\* listed first.
C27_Witness ==
    /\ selected_files.done
    /\ DOMAIN sound_files = {"a.wav", "c.wav"}
    /\ sound_files["a.wav"] = 1
    /\ sound_files["c.wav"] = 3
    /\ target_caws = 4
    /\ selected_files.files = <<"c.wav", "a.wav">>
    /\ Len(selected_files.greedy) = 2


\* ---------------------------------------------------------------------
\* C28  Chime sequences do not overlap and always finish: a chime check
\*      that finds chime_in_progress set schedules nothing and leaves the
\*      flag alone, and whenever chime_in_progress is set (quiet and full
\*      chime, the playback callback failing or not; the critical-battery
\*      branch clears it before it returns) it is cleared again later, so
\*      that a later chime can start.
ChimeActions(queue) ==
    {a \in queue : a.id[1] \notin {"flash_on", "flash_off"}}

SkippedCheck ==
    /\ last_tick' # last_tick
    /\ last_tick'.timed = 1
    /\ chime_log'.at # now'

OverlapStartsNothing ==
    SkippedCheck => /\ chime_in_progress'
                    /\ ChimeActions(scheduled_actions') \subseteq scheduled_actions
                    /\ chime_log'.path = chime_log.path

C29_ExclusiveClassification ==
    /\ btn_log.hold_longs <= 1
    /\ btn_log.hold_longs >= 1 => ~btn_log.hold_counted
    /\ btn_log.pending >= 2 => /\ "on_double_press" \in btn_log.fired
                               /\ "on_press" \notin btn_log.fired

\* The part of C29 that holds: two counted presses whose releases are
\* within double_press_window of each other fire on_double_press once and
\* on_press not at all.
DoublePressOnce ==
    /\ btn_log.pending >= 2 => /\ "on_double_press" \in btn_log.fired
                               /\ "on_press" \notin btn_log.fired
    /\ btn_log.pending = 1 => "on_press" \in btn_log.fired
    /\ btn.press_count > 0 => now - btn.last_press_time <= double_press_window

\* ---------------------------------------------------------------------
\* C30  After any sequence of load_mode and cycle_mode calls
\*      current_mode_instance is never empty and current_mode_name names the
\*      mode the instance is: the name is "default" exactly when the instance
\*      is a plain BaseMode, and any other name goes with an instance of the
\*      class of that mode.
C30_NameMatchesInstance ==
    /\ current_mode_instance # NoInstance
    /\ current_mode_name = "default" <=> current_mode_instance.cls = "BaseMode"
    /\ current_mode_name # "default"
           => current_mode_instance.cls = SuffixedImport(current_mode_name)

\* The part of C30 that holds: the instance is never empty, and the name
\* "default" always goes with a plain BaseMode.
DefaultIsBaseMode ==
    /\ current_mode_instance # NoInstance
    /\ current_mode_name = "default" => current_mode_instance.cls = "BaseMode"

====
